---- MODULE Spec2Model ----
(***************************************************************************)
(* Contact directory service of src/main.py: six FastAPI handlers over one *)
(* MongoDB collection.  Every handler is a sequence of awaited storage     *)
(* operations; each awaited operation is one step.  Spec interleaves the   *)
(* steps of concurrent requests, SeqSpec runs every handler start to       *)
(* finish in one step.                                                     *)
(***************************************************************************)
EXTENDS Integers, Sequences, FiniteSets, TLC

\* ------------------------------------------------------------------ bounds
\* ObjectIds the storage ever generates.
MaxIds == 2
\* Instants the clock distinguishes within one day (0 is midnight).
TicksPerDay == 2

\* timedelta(days=7)
WindowDays == 7

Clients == {"A", "B"}

\* ------------------------------------------------------------------ values
None == <<>>
Some(x) == <<x>>

\* Text is a sequence of characters.
FirstNames == {<<"I", "v">>}
LastNames == {<<"O", "v">>}
Emails == {<<"a", "@", "x">>, <<"b", "@", "x">>}
Phones == {"+1", "+2"}
Birthdays == {<<1990, 5, 21>>, <<2024, 1, 5>>}
AdditionalData == {None}

\* class Contact(BaseModel): a validated request body
Contact ==
    [first_name : FirstNames, last_name : LastNames, email : Emails,
     phone : Phones, birthday : Birthdays, additional_data : AdditionalData]

ContactFields ==
    {"first_name", "last_name", "email", "phone", "birthday", "additional_data"}

\* An ObjectId is a number; its string form is <<"oid", n>>.
ObjectIds == 1..MaxIds
str(oid) == <<"oid", oid>>
\* Path parameters the handlers receive: every ObjectId's string and a malformed one.
ContactIds == {str(oid) : oid \in ObjectIds} \cup {<<"xyz", 0>>}
\* ObjectId(contact_id): None stands for InvalidId
ObjectId(contact_id) ==
    IF contact_id[1] = "oid" THEN Some(contact_id[2]) ELSE None

\* search query parameters
Searches == {None, Some(<<>>), Some(<<"I", "V">>), Some(<<"b", "@">>), Some(<<"z">>)}

\* ------------------------------------------------------------------ calendar
IsLeap(y) == (y % 4 = 0 /\ y % 100 # 0) \/ y % 400 = 0

DaysInMonth(y, m) ==
    IF m = 2 THEN (IF IsLeap(y) THEN 29 ELSE 28)
    ELSE IF m \in {4, 6, 9, 11} THEN 30 ELSE 31

RECURSIVE DaysBeforeMonth(_, _)
DaysBeforeMonth(y, m) ==
    IF m = 1 THEN 0 ELSE DaysBeforeMonth(y, m - 1) + DaysInMonth(y, m - 1)

\* days from 1970-01-01 to January 1st of year y (y >= 1970)
DaysBeforeYear(y) ==
    365 * (y - 1970) + ((y - 1969) \div 4) - ((y - 1901) \div 100)
        + ((y - 1601) \div 400)

\* days from 1970-01-01 to the date <<y, m, d>>
Ordinal(d) == DaysBeforeYear(d[1]) + DaysBeforeMonth(d[1], d[2]) + d[3] - 1

\* datetime.min.time()
min_time == 0
\* datetime.combine(date, time)
combine(d, t) == [date |-> d, tod |-> t]
\* datetime.date()
date_of(dt) == dt.date

\* A datetime as the storage compares it: an instant since the epoch.
Instant(dt) == Ordinal(dt.date) * TicksPerDay + dt.tod

\* $dateFromParts: day and month out of range carry into the next month
dateFromParts(year, month, day) ==
    (DaysBeforeYear(year) + DaysBeforeMonth(year, month) + day - 1) * TicksPerDay

\* datetime.utcnow(): the instants a request may run at
NowDates ==
    {<<2024, 5, 11>>, <<2024, 5, 13>>, <<2024, 5, 14>>, <<2024, 5, 21>>,
     <<2024, 5, 22>>, <<2024, 12, 30>>}
Nows == {combine(d, t) : d \in NowDates, t \in 0..(TicksPerDay - 1)}

\* ------------------------------------------------------------------ text
Lower(ch) ==
    CASE ch = "I" -> "i" [] ch = "V" -> "v" [] ch = "O" -> "o"
      [] ch = "A" -> "a" [] ch = "B" -> "b" [] ch = "X" -> "x"
      [] ch = "Z" -> "z" [] OTHER -> ch

LowerText(t) == [i \in 1..Len(t) |-> Lower(t[i])]

\* {"$regex": search, "$options": "i"} for a search without metacharacters
RegexMatch(text, search) ==
    \E i \in 0..(Len(text) - Len(search)) :
        SubSeq(LowerText(text), i + 1, i + Len(search)) = LowerText(search)

\* ------------------------------------------------------------------ storage
\* A collection maps each stored _id to its document.
EmptyCollection == [i \in {} |-> None]

\* find_one(filter): a matching document, or None
AnyOf(coll, ids) == IF ids = {} THEN None ELSE Some(coll[CHOOSE i \in ids : TRUE])

\* find_one({"email": email})
find_one_email(coll, email) ==
    AnyOf(coll, {i \in DOMAIN coll : coll[i].email = email})

\* find_one({"phone": phone})
find_one_phone(coll, phone) ==
    AnyOf(coll, {i \in DOMAIN coll : coll[i].phone = phone})

\* find_one({"_id": oid})
find_one_id(coll, oid) ==
    AnyOf(coll, {i \in DOMAIN coll : i = oid})

\* find_one({"email": email, "_id": {"$ne": oid}})
find_one_email_ne(coll, email, oid) ==
    AnyOf(coll, {i \in DOMAIN coll : coll[i].email = email /\ i # oid})

\* Mutant of find_one_phone_ne: the filter selects the updated record itself.
find_one_phone_eq(coll, phone, oid) ==
    AnyOf(coll, {i \in DOMAIN coll : coll[i].phone = phone /\ i = oid})

\* find_one({"phone": phone, "_id": {"$ne": oid}})
find_one_phone_ne(coll, phone, oid) ==
    AnyOf(coll, {i \in DOMAIN coll : coll[i].phone = phone /\ i # oid})

\* Mutant of NewObjectId: the smallest id no stored document holds.
NewObjectId_reused(coll, nid) ==
    CHOOSE i \in 1..(nid + 1) :
        i \notin DOMAIN coll /\ \A j \in 1..(i - 1) : j \in DOMAIN coll

\* The _id insert_one gives a document that has none: never one given before.
NewObjectId(coll, nid) == nid + 1

\* insert_one(document)
insert_one(coll, nid, document) ==
    LET oid == NewObjectId(coll, nid)
    IN  [coll |-> (oid :> ([_id |-> oid] @@ document)) @@ coll,
         nid |-> IF oid > nid THEN oid ELSE nid,
         inserted_id |-> oid]

\* Mutant of update_one: the write is an upsert.
update_one_upsert(coll, oid, fields) ==
    IF oid \notin DOMAIN coll
    THEN [coll |-> (oid :> ([_id |-> oid] @@ fields)) @@ coll,
          matched_count |-> 0, modified_count |-> 0]
    ELSE LET new == fields @@ coll[oid]
         IN  [coll |-> [coll EXCEPT ![oid] = new],
              matched_count |-> 1,
              modified_count |-> IF new = coll[oid] THEN 0 ELSE 1]

\* update_one({"_id": oid}, {"$set": fields}): modified_count counts the
\* documents the $set changed, not the documents the filter matched.
update_one(coll, oid, fields) ==
    IF oid \notin DOMAIN coll
    THEN [coll |-> coll, matched_count |-> 0, modified_count |-> 0]
    ELSE LET new == fields @@ coll[oid]
         IN  [coll |-> [coll EXCEPT ![oid] = new],
              matched_count |-> 1,
              modified_count |-> IF new = coll[oid] THEN 0 ELSE 1]

\* delete_one({"_id": oid})
delete_one(coll, oid) ==
    IF oid \in DOMAIN coll
    THEN [coll |-> [i \in DOMAIN coll \ {oid} |-> coll[i]], deleted_count |-> 1]
    ELSE [coll |-> coll, deleted_count |-> 0]

\* The ids of a set as a cursor yields them: in insertion order.
RECURSIVE Cursor(_)
Cursor(ids) ==
    IF ids = {} THEN <<>>
    ELSE LET i == CHOOSE j \in ids : \A k \in ids : j <= k
         IN  <<i>> \o Cursor(ids \ {i})

\* find(query) of list_contacts
find_query(coll, search) ==
    IF search = None \/ search[1] = <<>>
    THEN DOMAIN coll
    ELSE {i \in DOMAIN coll :
            \/ RegexMatch(coll[i].first_name, search[1])
            \/ RegexMatch(coll[i].last_name, search[1])
            \/ RegexMatch(coll[i].email, search[1])}

\* the aggregate pipeline of upcoming_birthdays
aggregate_pipeline(coll, today) ==
    LET in_seven_days == Instant(today) + WindowDays * TicksPerDay
        birthMonth(i) == coll[i].birthday.date[2]
        birthDay(i) == coll[i].birthday.date[3]
        projected(i) == dateFromParts(today.date[1], birthMonth(i), birthDay(i))
    IN  {i \in DOMAIN coll :
            /\ projected(i) >= Instant(today)
            /\ projected(i) <= in_seven_days}

\* ------------------------------------------------------------------ responses
contact_helper(contact) ==
    [id |-> str(contact._id),
     first_name |-> contact.first_name,
     last_name |-> contact.last_name,
     email |-> contact.email,
     phone |-> contact.phone,
     birthday |-> IF "birthday" \in DOMAIN contact
                  THEN date_of(contact.birthday) ELSE None,
     additional_data |-> IF "additional_data" \in DOMAIN contact
                         THEN contact.additional_data ELSE None]

\* response_model=Contact: the response body keeps the fields Contact declares
response_model(value) == [f \in ContactFields |-> value[f]]

\* response_model=List[Contact]
response_model_list(values) ==
    [k \in 1..Len(values) |-> response_model(values[k])]

\* contact.dict() with the birthday made a datetime at midnight
contact_dict(contact) ==
    [contact EXCEPT !.birthday = combine(contact.birthday, min_time)]

\* ------------------------------------------------------------------ requests
Request(op, contact, contact_id, search, now) ==
    [op |-> op, contact |-> contact, contact_id |-> contact_id,
     search |-> search, now |-> now]

NoRequest == Request("", None, None, None, None)

\* The local variables of a handler between two awaited storage operations.
Frame(pc, request, contact_data, oid) ==
    [pc |-> pc, request |-> request, contact_data |-> contact_data, oid |-> oid]

IdleFrame == Frame("idle", NoRequest, None, 0)

\* The outcome of a step: the collection, the id generator, the handler's
\* frame, and the reply when the handler has finished.
Outcome(coll, nid, frame, reply) ==
    [coll |-> coll, nid |-> nid, frame |-> frame, reply |-> reply]

Reply(request, status, returned, body) ==
    Some([request |-> request, status |-> status, returned |-> returned,
          body |-> body])

\* raise HTTPException(status_code, detail)
HTTPException(coll, nid, request, status, detail) ==
    Outcome(coll, nid, IdleFrame,
            Reply(request, status, None, Some([detail |-> detail])))

\* return contact_helper(found) under response_model=Contact; found = None
\* makes contact_helper raise TypeError, an unhandled error: status 500
ReturnContact(coll, nid, request, found) ==
    IF found = None
    THEN Outcome(coll, nid, IdleFrame,
                 Reply(request, 500, None, Some([detail |-> "Internal Server Error"])))
    ELSE LET value == contact_helper(found[1])
         IN  Outcome(coll, nid, IdleFrame,
                     Reply(request, 200, Some(value), Some(response_model(value))))

\* return contacts under response_model=List[Contact]
ReturnList(coll, nid, request, ids) ==
    LET cur == Cursor(ids)
        values == [k \in 1..Len(cur) |-> contact_helper(coll[cur[k]])]
    IN  Outcome(coll, nid, IdleFrame,
                Reply(request, 200, Some(values), Some(response_model_list(values))))

\* ------------------------------------------------------------------ handlers
\* Each operator below is the part of a handler that runs up to and including
\* one awaited storage operation and the branch taken on its result.

\* create_contact, lines 43-47: the email lookup
create_contact_email(coll, nid, request) ==
    LET contact_data == contact_dict(request.contact[1])
    IN  IF find_one_email(coll, contact_data.email) # None
        THEN HTTPException(coll, nid, request, 400, "email in use")
        ELSE Outcome(coll, nid,
                     Frame("create_phone", request, Some(contact_data), 0), None)

\* Mutant of create_contact_phone: the phone lookup is skipped.
create_contact_phone_skipped(coll, nid, frame) ==
    Outcome(coll, nid, [frame EXCEPT !.pc = "create_insert"], None)

\* create_contact, lines 48-49: the phone lookup
create_contact_phone(coll, nid, frame) ==
    IF find_one_phone(coll, frame.contact_data[1].phone) # None
    THEN HTTPException(coll, nid, frame.request, 400, "phone in use")
    ELSE Outcome(coll, nid, [frame EXCEPT !.pc = "create_insert"], None)

\* create_contact, line 51: the insert
create_contact_insert(coll, nid, frame) ==
    LET result == insert_one(coll, nid, frame.contact_data[1])
    IN  Outcome(result.coll, result.nid,
                [frame EXCEPT !.pc = "create_return", !.oid = result.inserted_id],
                None)

\* create_contact, lines 52-53: the read back and the response
create_contact_return(coll, nid, frame) ==
    ReturnContact(coll, nid, frame.request, find_one_id(coll, frame.oid))

\* update_contact, lines 85-96: the id, then the email lookup
update_contact_email(coll, nid, request) ==
    LET parsed == ObjectId(request.contact_id[1])
        contact_data == contact_dict(request.contact[1])
    IN  IF parsed = None
        THEN HTTPException(coll, nid, request, 400, "invalid id")
        ELSE IF find_one_email_ne(coll, contact_data.email, parsed[1]) # None
        THEN HTTPException(coll, nid, request, 400, "email in use")
        ELSE Outcome(coll, nid,
                     Frame("update_phone", request, Some(contact_data), parsed[1]),
                     None)

\* update_contact, lines 97-99: the phone lookup
update_contact_phone(coll, nid, frame) ==
    IF find_one_phone_ne(coll, frame.contact_data[1].phone, frame.oid) # None
    THEN HTTPException(coll, nid, frame.request, 400, "phone in use")
    ELSE Outcome(coll, nid, [frame EXCEPT !.pc = "update_write"], None)

\* update_contact, lines 101-105 and 108: the write and the test of its result
update_contact_write(coll, nid, frame) ==
    LET result == update_one(coll, frame.oid, frame.contact_data[1])
    IN  IF result.modified_count = 1
        THEN Outcome(result.coll, nid, [frame EXCEPT !.pc = "update_return"], None)
        ELSE HTTPException(result.coll, nid, frame.request, 404, "not found")

\* update_contact, lines 106-107: the read back and the response
update_contact_return(coll, nid, frame) ==
    ReturnContact(coll, nid, frame.request, find_one_id(coll, frame.oid))

\* get_contact, lines 74-81
get_contact_find(coll, nid, request) ==
    LET parsed == ObjectId(request.contact_id[1])
    IN  IF parsed = None
        THEN HTTPException(coll, nid, request, 400, "invalid id")
        ELSE LET contact == find_one_id(coll, parsed[1])
             IN  IF contact # None
                 THEN ReturnContact(coll, nid, request, contact)
                 ELSE HTTPException(coll, nid, request, 404, "not found")

\* delete_contact, lines 112-120
delete_contact_delete(coll, nid, request) ==
    LET parsed == ObjectId(request.contact_id[1])
    IN  IF parsed = None
        THEN HTTPException(coll, nid, request, 400, "invalid id")
        ELSE LET result == delete_one(coll, parsed[1])
             IN  IF result.deleted_count = 1
                 THEN Outcome(result.coll, nid, IdleFrame,
                              Reply(request, 204, None, None))
                 ELSE HTTPException(result.coll, nid, request, 404, "not found")

\* list_contacts, lines 57-70
list_contacts_find(coll, nid, request) ==
    ReturnList(coll, nid, request, find_query(coll, request.search))

\* upcoming_birthdays, lines 125-165
upcoming_birthdays_aggregate(coll, nid, request) ==
    ReturnList(coll, nid, request, aggregate_pipeline(coll, request.now[1]))

\* The next step of a handler that is waiting on storage.
Resume(coll, nid, frame) ==
    CASE frame.pc = "create_phone" -> create_contact_phone(coll, nid, frame)
      [] frame.pc = "create_insert" -> create_contact_insert(coll, nid, frame)
      [] frame.pc = "create_return" -> create_contact_return(coll, nid, frame)
      [] frame.pc = "update_phone" -> update_contact_phone(coll, nid, frame)
      [] frame.pc = "update_write" -> update_contact_write(coll, nid, frame)
      [] frame.pc = "update_return" -> update_contact_return(coll, nid, frame)

\* A handler run to its response with no other request in between.
RECURSIVE Finish(_)
Finish(outcome) ==
    IF outcome.frame.pc = "idle" THEN outcome
    ELSE Finish(Resume(outcome.coll, outcome.nid, outcome.frame))

\* ------------------------------------------------------------------ state
VARIABLES
    contacts_collection,  \* the documents of database.contacts
    nextId,               \* the last ObjectId the storage generated
    frames,               \* per client, the handler waiting on storage
    response              \* the response being sent, None when there is none

vars == <<contacts_collection, nextId, frames, response>>

Init ==
    /\ contacts_collection = EmptyCollection
    /\ nextId = 0
    /\ frames = [c \in Clients |-> IdleFrame]
    /\ response = None

\* The state after a step of client c's handler.
Apply(c, outcome) ==
    /\ response = None
    /\ contacts_collection' = outcome.coll
    /\ nextId' = outcome.nid
    /\ frames' = [frames EXCEPT ![c] = outcome.frame]
    /\ response' = outcome.reply

Idle(c) == frames[c].pc = "idle"

\* Handlers that have yet to insert; each will take one ObjectId.
PendingInserts ==
    Cardinality({c \in Clients : frames[c].pc \in {"create_phone", "create_insert"}})

CanInsert == nextId + PendingInserts < MaxIds

CreateRequests == {Request("create", Some(contact), None, None, None) : contact \in Contact}
UpdateRequests ==
    {Request("update", Some(contact), Some(id), None, None) :
        contact \in Contact, id \in ContactIds}
GetRequests == {Request("get", None, Some(id), None, None) : id \in ContactIds}
DeleteRequests == {Request("delete", None, Some(id), None, None) : id \in ContactIds}
ListRequests == {Request("list", None, None, search, None) : search \in Searches}
UpcomingRequests == {Request("upcoming", None, None, None, Some(now)) : now \in Nows}

\* ---- steps of interleaved requests
create_contact_begin(c) ==
    /\ Idle(c) /\ CanInsert
    /\ \E request \in CreateRequests :
          Apply(c, create_contact_email(contacts_collection, nextId, request))

create_contact_find_phone(c) ==
    /\ frames[c].pc = "create_phone"
    /\ Apply(c, create_contact_phone(contacts_collection, nextId, frames[c]))

create_contact_insert_one(c) ==
    /\ frames[c].pc = "create_insert"
    /\ Apply(c, create_contact_insert(contacts_collection, nextId, frames[c]))

create_contact_read_back(c) ==
    /\ frames[c].pc = "create_return"
    /\ Apply(c, create_contact_return(contacts_collection, nextId, frames[c]))

update_contact_begin(c) ==
    /\ Idle(c)
    /\ \E request \in UpdateRequests :
          Apply(c, update_contact_email(contacts_collection, nextId, request))

update_contact_find_phone(c) ==
    /\ frames[c].pc = "update_phone"
    /\ Apply(c, update_contact_phone(contacts_collection, nextId, frames[c]))

update_contact_update_one(c) ==
    /\ frames[c].pc = "update_write"
    /\ Apply(c, update_contact_write(contacts_collection, nextId, frames[c]))

update_contact_read_back(c) ==
    /\ frames[c].pc = "update_return"
    /\ Apply(c, update_contact_return(contacts_collection, nextId, frames[c]))

\* ---- handlers of one storage operation
get_contact(c) ==
    /\ Idle(c)
    /\ \E request \in GetRequests :
          Apply(c, get_contact_find(contacts_collection, nextId, request))

delete_contact(c) ==
    /\ Idle(c)
    /\ \E request \in DeleteRequests :
          Apply(c, delete_contact_delete(contacts_collection, nextId, request))

list_contacts(c) ==
    /\ Idle(c)
    /\ \E request \in ListRequests :
          Apply(c, list_contacts_find(contacts_collection, nextId, request))

upcoming_birthdays(c) ==
    /\ Idle(c)
    /\ \E request \in UpcomingRequests :
          Apply(c, upcoming_birthdays_aggregate(contacts_collection, nextId, request))

\* ---- whole handlers, one request at a time
create_contact(c) ==
    /\ Idle(c) /\ CanInsert
    /\ \E request \in CreateRequests :
          Apply(c, Finish(create_contact_email(contacts_collection, nextId, request)))

update_contact(c) ==
    /\ Idle(c)
    /\ \E request \in UpdateRequests :
          Apply(c, Finish(update_contact_email(contacts_collection, nextId, request)))

\* The response leaves the service.
send_response ==
    /\ response # None
    /\ response' = None
    /\ UNCHANGED <<contacts_collection, nextId, frames>>

Next ==
    \/ send_response
    \/ \E c \in Clients :
        \/ create_contact_begin(c)
        \/ create_contact_find_phone(c)
        \/ create_contact_insert_one(c)
        \/ create_contact_read_back(c)
        \/ update_contact_begin(c)
        \/ update_contact_find_phone(c)
        \/ update_contact_update_one(c)
        \/ update_contact_read_back(c)
        \/ get_contact(c)
        \/ delete_contact(c)
        \/ list_contacts(c)
        \/ upcoming_birthdays(c)

\* Requests of concurrent clients, interleaved at every awaited operation.
Spec == Init /\ [][Next]_vars

SeqNext ==
    \/ send_response
    \/ \E c \in Clients :
        \/ create_contact(c)
        \/ update_contact(c)
        \/ get_contact(c)
        \/ delete_contact(c)
        \/ list_contacts(c)
        \/ upcoming_birthdays(c)

\* Requests run one at a time, each handler from its start to its response.
SeqSpec == Init /\ [][SeqNext]_vars

\* ------------------------------------------------------------------ claims
\* The response being sent, its request and the id its path names.
Sent(op) == response # None /\ response[1].request.op = op
SentOp(op) == response' # None /\ response'[1].request.op = op
WellFormed(request) == ObjectId(request.contact_id[1]) # None
OidOf(request) == ObjectId(request.contact_id[1])[1]

EmailUsed(coll, email) == \E i \in DOMAIN coll : coll[i].email = email
PhoneUsed(coll, phone) == \E i \in DOMAIN coll : coll[i].phone = phone

Unique(coll) ==
    \A i, j \in DOMAIN coll :
        i # j => coll[i].email # coll[j].email /\ coll[i].phone # coll[j].phone

\* The ids of the contacts a list or upcoming-birthdays response returns.
ReturnedIds(reply) ==
    {reply.returned[1][k].id : k \in 1..Len(reply.returned[1])}

\* C1: in every reachable state, interleaved requests included, no two stored
\* contacts share an email and no two share a phone.
C1_Unique == Unique(contacts_collection)

\* C2: one request at a time, a create whose email or phone a stored contact
\* already has fails with 400, inserts nothing and changes no stored contact.
C2_CreateConflict ==
    [][(/\ SentOp("create")
        /\ \/ EmailUsed(contacts_collection, response'[1].request.contact[1].email)
           \/ PhoneUsed(contacts_collection, response'[1].request.contact[1].phone))
       => (/\ response'[1].status = 400
           /\ contacts_collection' = contacts_collection
           /\ nextId' = nextId)]_vars

\* C2 witness: a create refused for its phone alone.
C2_Witness ==
    /\ Sent("create")
    /\ response[1].status = 400
    /\ PhoneUsed(contacts_collection, response[1].request.contact[1].phone)
    /\ ~EmailUsed(contacts_collection, response[1].request.contact[1].email)

\* C3: an update of a stored contact that keeps its email and phone, used by
\* no other contact, succeeds and returns the contact, whatever the other
\* fields are, also when every field equals the stored value.
C3_UpdateKeepsOwn ==
    [][(/\ SentOp("update")
        /\ WellFormed(response'[1].request)
        /\ LET oid == OidOf(response'[1].request)
               contact == response'[1].request.contact[1]
           IN  /\ oid \in DOMAIN contacts_collection
               /\ contacts_collection[oid].email = contact.email
               /\ contacts_collection[oid].phone = contact.phone
               /\ \A i \in DOMAIN contacts_collection \ {oid} :
                     /\ contacts_collection[i].email # contact.email
                     /\ contacts_collection[i].phone # contact.phone)
       => (/\ response'[1].status = 200
           /\ response'[1].returned # None)]_vars

\* C4 as claimed: an update whose well-formed id matches no stored contact
\* fails with 404 for every input and leaves the store unchanged.
C4_UpdateMissingIs404 ==
    [][(/\ SentOp("update")
        /\ WellFormed(response'[1].request)
        /\ OidOf(response'[1].request) \notin DOMAIN contacts_collection)
       => (/\ response'[1].status = 404
           /\ contacts_collection' = contacts_collection)]_vars

\* C4 as amended: an update whose well-formed id matches no stored contact
\* leaves the store unchanged and fails: with 400 when a stored contact has
\* the input's email or phone, with 404 otherwise.
C4_UpdateMissingFails ==
    [][(/\ SentOp("update")
        /\ WellFormed(response'[1].request)
        /\ OidOf(response'[1].request) \notin DOMAIN contacts_collection)
       => (/\ contacts_collection' = contacts_collection
           /\ LET contact == response'[1].request.contact[1]
              IN  response'[1].status =
                    IF \/ EmailUsed(contacts_collection, contact.email)
                       \/ PhoneUsed(contacts_collection, contact.phone)
                    THEN 400 ELSE 404)]_vars

\* C4 witness: an update of a missing id answered 404 while contacts are stored.
C4_Witness ==
    /\ Sent("update")
    /\ WellFormed(response[1].request)
    /\ OidOf(response[1].request) \notin DOMAIN contacts_collection
    /\ response[1].status = 404
    /\ contacts_collection # EmptyCollection

\* C5: once a delete has succeeded the contact stays absent: its id is never
\* stored again, a get of it answers 404, and no list or upcoming-birthdays
\* response returns it.
C5_DeletedStaysAbsent ==
    /\ [][/\ (SentOp("delete") /\ response'[1].status = 204)
              => OidOf(response'[1].request) \notin DOMAIN contacts_collection'
          /\ \A oid \in ObjectIds :
                (oid <= nextId /\ oid \notin DOMAIN contacts_collection)
                    => oid \notin DOMAIN contacts_collection']_vars
    /\ [](/\ (/\ Sent("get")
              /\ WellFormed(response[1].request)
              /\ OidOf(response[1].request) \notin DOMAIN contacts_collection)
                => response[1].status = 404
          /\ (Sent("list") \/ Sent("upcoming"))
                => ReturnedIds(response[1])
                     \subseteq {str(i) : i \in DOMAIN contacts_collection})

\* C5 witness: a get of a deleted contact, answered while another is stored.
C5_Witness ==
    /\ Sent("get")
    /\ WellFormed(response[1].request)
    /\ OidOf(response[1].request) <= nextId
    /\ OidOf(response[1].request) \notin DOMAIN contacts_collection
    /\ response[1].status = 404
    /\ contacts_collection # EmptyCollection

\* C6: the response of a successful create carries the new record's id and
\* the input's six fields, and a get of a stored id answers that record's
\* six fields.
C6_CreateReturnsId ==
    /\ (Sent("create") /\ response[1].status = 200)
          => /\ "id" \in DOMAIN response[1].body[1]
             /\ \A f \in ContactFields :
                   response[1].body[1][f] = response[1].request.contact[1][f]
    /\ (Sent("get") /\ response[1].status = 200)
          => LET doc == contacts_collection[OidOf(response[1].request)]
             IN  /\ response[1].body[1].email = doc.email
                 /\ response[1].body[1].phone = doc.phone
                 /\ response[1].body[1].birthday = doc.birthday.date

\* Calendar dates of the birthday window, as days since the epoch.
Today(reply) == Ordinal(reply.request.now[1].date)
ThisYear(reply) == reply.request.now[1].date[1]
SameYearWindow(reply) ==
    Today(reply) + WindowDays < DaysBeforeYear(ThisYear(reply) + 1)
\* the birthday of stored contact i in year y
BirthdayIn(i, y) ==
    Ordinal(<<y, contacts_collection[i].birthday.date[2],
              contacts_collection[i].birthday.date[3]>>)

\* C7: when today + 7 days is in today's year, upcoming-birthdays returns a
\* contact exactly when its birthday in this year is a date from today to
\* today + 7 days, whatever the time of day of the request.
C7_WindowInclusive ==
    (Sent("upcoming") /\ SameYearWindow(response[1]))
        => ReturnedIds(response[1]) =
             {str(i) : i \in
                {j \in DOMAIN contacts_collection :
                    /\ Today(response[1]) <= BirthdayIn(j, ThisYear(response[1]))
                    /\ BirthdayIn(j, ThisYear(response[1]))
                          <= Today(response[1]) + WindowDays}}

\* C8: when the window crosses the year's end, upcoming-birthdays returns
\* every contact whose birthday falls in the January part of the window.
C8_WindowCrossesYear ==
    (Sent("upcoming") /\ ~SameYearWindow(response[1]))
        => \A i \in DOMAIN contacts_collection :
              BirthdayIn(i, ThisYear(response[1]) + 1)
                    <= Today(response[1]) + WindowDays
                 => str(i) \in ReturnedIds(response[1])

\* C9: with every request atomic, from the empty store, emails and phones
\* stay pairwise distinct, and a create or update either fails with 400 and
\* leaves the store unchanged or leaves them pairwise distinct.
C9_AtomicKeepsUnique ==
    /\ [](Unique(contacts_collection))
    /\ [][(SentOp("create") \/ SentOp("update"))
          => \/ /\ response'[1].status = 400
                /\ contacts_collection' = contacts_collection
             \/ /\ response'[1].status # 400
                /\ Unique(contacts_collection')]_vars

\* C9 witness: an update refused for a phone another stored contact has.
C9_Witness ==
    /\ Sent("update")
    /\ response[1].status = 400
    /\ WellFormed(response[1].request)
    /\ OidOf(response[1].request) \in DOMAIN contacts_collection
    /\ Cardinality(DOMAIN contacts_collection) = 2
    /\ \E i \in DOMAIN contacts_collection \ {OidOf(response[1].request)} :
          /\ contacts_collection[i].phone = response[1].request.contact[1].phone
          /\ contacts_collection[i].email # response[1].request.contact[1].email

\* C10: a create or update whose write succeeded ends with the contact built
\* from the stored record, never with an unhandled failure, even when a
\* delete of the id runs between the write and the read back.
C10_WriteThenContact ==
    ((Sent("create") \/ Sent("update")) /\ response[1].status \notin {400, 404})
        => /\ response[1].status = 200
           /\ response[1].returned # None

====
